---------------------------- MODULE Spec2Model ----------------------------
(***************************************************************************)
(* Model of src/app.py: the check-in screenshot verifier (Streamlit        *)
(* script).  A Python str is modelled as a sequence of characters, each    *)
(* character being a one-element token.  Chinese characters are written    *)
(* with their pinyin so that the module stays ASCII:                       *)
(*   "ni","cheng"              = the two characters of the nickname label   *)
(*   "da","ka","shi","jian"    = the four characters of the time label      *)
(*   "lun","wen","yuan","zhai","yao","de","sui","ji","yi","ju","hua"       *)
(*                             = the characters of the excerpt label        *)
(*   ":"  = half-width colon,  "fcolon" = full-width colon (U+FF1A)        *)
(* The alphabet holds no line break: an OCR "words" item is one line.      *)
(***************************************************************************)
EXTENDS Integers, Sequences, FiniteSets, TLC

VARIABLES
    text_lines,         \* parse_checkin: its argument
    i,                  \* parse_checkin: the cursor
    entries,            \* parse_checkin: the list being built
    pc,                 \* position of the running function
    cur,                \* verification loop: the entry being verified
    today,              \* date.today(), as <<year, month, day>>
    standard_abstract,  \* fetch_today_abstract()'s result
    member_table,       \* the member table read by fetch_member_nicknames
    records,            \* st.session_state.records
    pending_review,     \* st.session_state.pending_review (references)
    uploaded_files,     \* the files held by the st.file_uploader widget
    shown,              \* the buttons rendered by the last script run
    last,               \* what the last script run was started by
    ocr                 \* the recognizer's answer for each file, last run

vars == <<text_lines, i, entries, pc, cur, today, standard_abstract,
          member_table, records, pending_review, uploaded_files, shown, last,
          ocr>>

-----------------------------------------------------------------------------
(* Bounds of the model *)

MaxLines == 5

MaxStored == 2

MaxFiles == 2

MaxRecords == 3

-----------------------------------------------------------------------------
(* Python str operations used by the script *)

Colons == {":", "fcolon"}
Digits == {"0", "1", "2", "3", "4", "5", "6", "7", "8", "9"}
WhiteSpace == {" ", "\t"}

NickLabel == <<"ni", "cheng">>
TimeLabel == <<"da", "ka", "shi", "jian">>
ExcerptTail == <<"zhai", "yao", "de", "sui", "ji", "yi", "ju", "hua">>
ExcerptLabelShort == <<"lun", "wen">> \o ExcerptTail
ExcerptLabelLong == <<"lun", "wen", "yuan", "wen">> \o ExcerptTail

Drop(s, k) == SubSeq(s, k, Len(s))

startswith(s, p) == Len(s) >= Len(p) /\ SubSeq(s, 1, Len(p)) = p

\* index of the first non-whitespace character at or after k (Len(s)+1 if none)
SkipSpaces(s, k) ==
    LET rest == {n \in k..Len(s) : s[n] \notin WhiteSpace}
    IN  IF rest = {} THEN Len(s) + 1
        ELSE CHOOSE n \in rest : \A m \in rest : n <= m

\* str.strip(): whitespace removed at both ends
strip(s) ==
    LET keep == {n \in 1..Len(s) : s[n] \notin WhiteSpace}
    IN  IF keep = {} THEN <<>>
        ELSE SubSeq(s, CHOOSE n \in keep : \A m \in keep : n <= m,
                       CHOOSE n \in keep : \A m \in keep : n >= m)

\* positions of the colons of s at or after k
ColonsFrom(s, k) == {n \in k..Len(s) : s[n] \in Colons}

Least(S) == CHOOSE n \in S : \A m \in S : n <= m

IsDigitAt(s, k) == k >= 1 /\ k <= Len(s) /\ s[k] \in Digits
IsCharAt(s, k, c) == k >= 1 /\ k <= Len(s) /\ s[k] = c

\* r'^昵称.*?[:：]\s*(.*?)$' : the label, lazily up to the first colon, the
\* whitespace after it, and the rest of the line as group 1
nick_match(line) ==
    IF startswith(line, NickLabel) /\ ColonsFrom(line, Len(NickLabel) + 1) # {}
    THEN [matched |-> TRUE,
          group1 |-> Drop(line, SkipSpaces(line,
                       Least(ColonsFrom(line, Len(NickLabel) + 1)) + 1))]
    ELSE [matched |-> FALSE, group1 |-> <<>>]

\* length of the match of \d{4}/\d{1,2}/\d{1,2} at position q (0: no match);
\* both \d{1,2} are greedy
DateLenAt(s, q) ==
    IF ~(IsDigitAt(s, q) /\ IsDigitAt(s, q + 1) /\ IsDigitAt(s, q + 2)
          /\ IsDigitAt(s, q + 3) /\ IsCharAt(s, q + 4, "/"))
    THEN 0
    ELSE LET mlen == IF IsDigitAt(s, q + 5) /\ IsDigitAt(s, q + 6)
                        /\ IsCharAt(s, q + 7, "/") /\ IsDigitAt(s, q + 8)
                     THEN 2
                     ELSE IF IsDigitAt(s, q + 5) /\ IsCharAt(s, q + 6, "/")
                             /\ IsDigitAt(s, q + 7)
                          THEN 1 ELSE 0
         IN  IF mlen = 0 THEN 0
             ELSE IF IsDigitAt(s, q + 5 + mlen + 2)
                  THEN 5 + mlen + 3 ELSE 5 + mlen + 2

\* r'^打卡时间.*?[:：]\s*(\d{4}/\d{1,2}/\d{1,2})' : the lazy .*? stops at the
\* first colon after which (whitespace skipped) a date token stands
time_match(line) ==
    LET ok == {p \in ColonsFrom(line, Len(TimeLabel) + 1) :
                  DateLenAt(line, SkipSpaces(line, p + 1)) > 0}
    IN  IF startswith(line, TimeLabel) /\ ok # {}
        THEN LET q == SkipSpaces(line, Least(ok) + 1)
             IN  [matched |-> TRUE,
                  group1 |-> SubSeq(line, q, q + DateLenAt(line, q) - 1)]
        ELSE [matched |-> FALSE, group1 |-> <<>>]

\* re.sub(r'^论文(原文)?摘要的随机一句话.*?[:：]', '', line): the boilerplate
\* prefix, up to its first colon, removed when the line starts with it
sub_prefix(line) ==
    LET lab == IF startswith(line, ExcerptLabelLong) THEN ExcerptLabelLong
               ELSE IF startswith(line, ExcerptLabelShort) THEN ExcerptLabelShort
               ELSE <<>>
    IN  IF lab # <<>> /\ ColonsFrom(line, Len(lab) + 1) # {}
        THEN Drop(line, Least(ColonsFrom(line, Len(lab) + 1)) + 1)
        ELSE line

-----------------------------------------------------------------------------
(* parse_checkin, one iteration of its while loop per step *)

\* the recognised lines the parser is run on
L_Nick == <<" ", "ni", "cheng", "(", "x", ")", ":", " ", "zhang", "san", " ">>
L_Time == <<"da", "ka", "shi", "jian", ":", " ", "2", "0", "2", "6", "/", "1", "1", "/", "0", "2", "x">>
L_TimeBad == <<"da", "ka", "shi", "jian", "fcolon", "3", "yue", "5", "ri">>
L_Exc == ExcerptLabelLong \o <<"(", "x", ")", "fcolon", " ", "a", ":", "b">>
L_Junk == <<"h", "i">>

LinePool == {L_Nick, L_Time, L_TimeBad, L_Exc, L_Junk}

LineSeqs(n) == UNION {[1..k -> LinePool] : k \in 0..n}

\* parse_iter with `i += 3; continue` lost: the cursor moves one line on
parse_iter_step1(lines, k, es) ==
    LET nm == nick_match(strip(lines[k + 1]))
        tm == time_match(strip(lines[k + 2]))
    IN  IF nm.matched /\ k + 2 < Len(lines) /\ tm.matched
        THEN [i |-> k + 1,
              entries |-> Append(es, <<strip(nm.group1), strip(tm.group1),
                                       strip(sub_prefix(strip(lines[k + 3])))>>)]
        ELSE [i |-> k + 1, entries |-> es]

\* the body of the while loop, lines 114-134: the next (cursor, entries)
parse_iter(lines, k, es) ==
    LET line == strip(lines[k + 1])
        nm == nick_match(line)
    IN  IF nm.matched
        THEN LET nickname == strip(nm.group1)
             IN  IF k + 1 < Len(lines)
                 THEN LET time_line == strip(lines[k + 2])
                          tm == time_match(time_line)
                      IN  IF tm.matched
                          THEN LET punch_time == strip(tm.group1)
                               IN  IF k + 2 < Len(lines)
                                   THEN LET abstract_line == strip(lines[k + 3])
                                            abstract_sentence ==
                                                strip(sub_prefix(abstract_line))
                                        IN  [i |-> k + 3,
                                             entries |-> Append(es,
                                                <<nickname, punch_time,
                                                  abstract_sentence>>)]
                                   ELSE [i |-> k + 1, entries |-> es]
                          ELSE [i |-> k + 1, entries |-> es]
                 ELSE [i |-> k + 1, entries |-> es]
        ELSE [i |-> k + 1, entries |-> es]

RECURSIVE parse_from(_, _, _)
parse_next(lines, n) == parse_from(lines, n.i, n.entries)

parse_from(lines, k, es) ==
    IF k < Len(lines) THEN parse_next(lines, parse_iter(lines, k, es)) ELSE es

\* parse_checkin(text_lines), run to its return
parse_checkin(lines) == parse_from(lines, 0, <<>>)

-----------------------------------------------------------------------------
(* similarity: difflib.SequenceMatcher(None, a, b).ratio().  Positions are  *)
(* Python's (0-based, half-open ranges).  The automatic junk heuristic of   *)
(* SequenceMatcher only acts when b has 200 characters or more, above the   *)
(* lengths used here.                                                        *)

\* a[p : p+k] == b[q : q+k]
SameBlock(a, b, p, q, k) == SubSeq(a, p + 1, p + k) = SubSeq(b, q + 1, q + k)

Greatest(S) == CHOOSE n \in S : \A m \in S : n >= m

\* of the blocks cand: a longest one, of these the earliest in a, of these the
\* earliest in b
EarliestOf(cand) ==
    LET p == Least({m[1] : m \in cand})
    IN  <<p, Least({m[2] : m \in {n \in cand : n[1] = p}})>>

LongestOf(cand, k) ==
    <<EarliestOf({m \in cand : m[3] = k})[1],
      EarliestOf({m \in cand : m[3] = k})[2], k>>

BestOf(cand, none) ==
    IF cand = {} THEN none ELSE LongestOf(cand, Greatest({m[3] : m \in cand}))

\* SequenceMatcher.find_longest_match: the longest common block of
\* a[alo:ahi] and b[blo:bhi]; of the longest, the one starting earliest in a,
\* and of those the one starting earliest in b; <<alo, blo, 0>> when none
find_longest_match(a, b, alo, ahi, blo, bhi) ==
    BestOf({m \in (alo..(ahi - 1)) \X (blo..(bhi - 1)) \X (1..(ahi - alo)) :
               /\ m[1] + m[3] <= ahi
               /\ m[2] + m[3] <= bhi
               /\ SameBlock(a, b, m[1], m[2], m[3])},
           <<alo, blo, 0>>)

\* SequenceMatcher.get_matching_blocks, summed: the characters matched
RECURSIVE matches(_, _, _, _, _, _)
matches_around(a, b, alo, ahi, blo, bhi, m) ==
    IF m[3] = 0 THEN 0
    ELSE m[3]
         + (IF alo < m[1] /\ blo < m[2]
            THEN matches(a, b, alo, m[1], blo, m[2]) ELSE 0)
         + (IF m[1] + m[3] < ahi /\ m[2] + m[3] < bhi
            THEN matches(a, b, m[1] + m[3], ahi, m[2] + m[3], bhi) ELSE 0)

matches(a, b, alo, ahi, blo, bhi) ==
    matches_around(a, b, alo, ahi, blo, bhi,
                   find_longest_match(a, b, alo, ahi, blo, bhi))

\* ratio(): 2.0 * matches / length, 1.0 when both are empty; the float is
\* kept as the exact fraction num / den
similarity(a, b) ==
    IF Len(a) + Len(b) = 0 THEN [num |-> 1, den |-> 1]
    ELSE [num |-> 2 * matches(a, b, 0, Len(a), 0, Len(b)),
          den |-> Len(a) + Len(b)]

\* THRESHOLD = 0.75, in hundredths
THRESHOLD == 75

\* sim >= THRESHOLD
AtLeastThreshold(sim) == sim.num * 100 >= THRESHOLD * sim.den

\* round(sim, 2), in hundredths.  A tie is rounded to even; for den < 80 a tie
\* is a dyadic fraction, which the float holds exactly.
round2(sim) ==
    LET q == (sim.num * 100) \div sim.den
        r == (sim.num * 100) % sim.den
    IN  IF 2 * r > sim.den THEN q + 1
        ELSE IF 2 * r < sim.den THEN q
        ELSE IF q % 2 = 0 THEN q ELSE q + 1

-----------------------------------------------------------------------------
(* the verification of one entry, lines 211-247 *)

DigitTok == <<"0", "1", "2", "3", "4", "5", "6", "7", "8", "9">>
Digit(n) == DigitTok[n + 1]

\* date.strftime("%Y/%m/%d"): month and day zero-padded to two digits
strftime(d) ==
    <<Digit(d[1] \div 1000), Digit((d[1] \div 100) % 10),
      Digit((d[1] \div 10) % 10), Digit(d[1] % 10), "/",
      Digit(d[2] \div 10), Digit(d[2] % 10), "/",
      Digit(d[3] \div 10), Digit(d[3] % 10)>>

\* Python's `x in y` on str
contains(y, x) ==
    \E k \in 0..(Len(y) - Len(x)) : SubSeq(y, k + 1, k + Len(x)) = x

\* [f(x) for x in s if keep(x)] for the roster: the non-empty rows, stripped
RECURSIVE stripped_rows(_)
stripped_rows(rows) ==
    IF rows = <<>> THEN <<>>
    ELSE (IF Head(rows) # <<>> THEN <<strip(Head(rows))>> ELSE <<>>)
         \o stripped_rows(Tail(rows))

\* fetch_member_nicknames(): [] without FEISHU_MEMBER_TABLE_ID
fetch_member_nicknames(table) ==
    IF ~table.configured THEN <<>> ELSE stripped_rows(table.rows)

is_date_valid(punch_time, day) == punch_time = strftime(day)

sim_of(sentence, abstract) ==
    IF abstract # <<>> THEN similarity(sentence, abstract)
    ELSE [num |-> 0, den |-> 1]

is_sim_pass(sentence, abstract) ==
    IF abstract # <<>> THEN AtLeastThreshold(sim_of(sentence, abstract))
    ELSE FALSE

\* nick_valid with the containment tested in one direction only
nick_valid_oneway(nickname, member_nicknames) ==
    IF member_nicknames # <<>>
    THEN \E k \in 1..Len(member_nicknames) :
            contains(member_nicknames[k], nickname)
    ELSE TRUE

nick_valid(nickname, member_nicknames) ==
    IF member_nicknames # <<>>
    THEN \E k \in 1..Len(member_nicknames) :
            \/ contains(member_nicknames[k], nickname)
            \/ contains(nickname, member_nicknames[k])
    ELSE TRUE

\* passed without the nickname check
passed_no_nick(d, s, n) == d /\ s

passed(d, s, n) == d /\ s /\ n

\* the dict built at lines 234-243
record_of(entry, sim, d, sp, n) ==
    [nicheng |-> entry[1],
     dakariqi |-> entry[2],
     zhailujuzi |-> entry[3],
     xiangsidu |-> round2(sim),
     riqiyouxiao |-> d,
     xiangsidudabiao |-> sp,
     nichengyouxiao |-> n,
     tongguo |-> passed(d, sp, n)]

\* lines 211-243: the three checks of an entry and its dict
record(entry, day, abstract, member_nicknames) ==
    record_of(entry,
              sim_of(entry[3], abstract),
              is_date_valid(entry[2], day),
              is_sim_pass(entry[3], abstract),
              nick_valid(entry[1], member_nicknames))

\* lines 244-247 on the session state st = [records, pending_review]; a
\* member of pending_review is a reference to a dict of records, kept as the
\* position of that dict in records
append_pending(pend, rec, ref) ==
    IF ~rec.tongguo THEN Append(pend, ref) ELSE pend

store(st, rec) ==
    [records |-> Append(st.records, rec),
     pending_review |-> append_pending(st.pending_review, rec,
                                       Len(st.records) + 1)]

NoDate == <<0, 0, 0>>

ParseIdle ==
    /\ cur = <<>>
    /\ today = NoDate
    /\ standard_abstract = <<>>
    /\ member_table = <<>>
    /\ records = <<>>
    /\ pending_review = <<>>
    /\ uploaded_files = <<>>
    /\ shown = {}
    /\ last = "none"
    /\ ocr = <<>>

ParseInit ==
    /\ text_lines \in LineSeqs(MaxLines)
    /\ i = 0
    /\ entries = <<>>
    /\ pc = "while"
    /\ ParseIdle

ParseLoop ==
    /\ pc = "while"
    /\ i < Len(text_lines)
    /\ i' = parse_iter(text_lines, i, entries).i
    /\ entries' = parse_iter(text_lines, i, entries).entries
    /\ UNCHANGED <<text_lines, pc, cur, today, standard_abstract, member_table,
                   records, pending_review, uploaded_files, shown, last, ocr>>

ParseReturn ==
    /\ pc = "while"
    /\ i >= Len(text_lines)
    /\ pc' = "return"
    /\ UNCHANGED <<text_lines, i, entries, cur, today, standard_abstract,
                   member_table, records, pending_review, uploaded_files,
                   shown, last, ocr>>

ParseNext == ParseLoop \/ ParseReturn

ParseSpec == ParseInit /\ [][ParseNext]_vars

-----------------------------------------------------------------------------
(* the verification loop on its own: one parsed entry, verified under one   *)
(* day, reference abstract and member table                                 *)

NicknamePool == {<<"xiao", "ming">>, <<"zhang", "san">>, <<>>}

TimePool == {<<"2", "0", "2", "6", "/", "3", "/", "5">>,
             <<"2", "0", "2", "6", "/", "0", "3", "/", "0", "5">>,
             <<"2", "0", "2", "6", "/", "1", "1", "/", "1", "2">>}

SentencePool == {<<"a", "b">>, <<"a", "b", "c">>, <<"a", "x", "b", "c">>, <<>>}

EntryPool == NicknamePool \X TimePool \X SentencePool

Days == {<<2026, 3, 5>>, <<2026, 3, 6>>, <<2026, 11, 12>>}

AbstractPool == {<<>>, <<"a", "b", "c">>, <<"a", "b", "c", "d">>,
                 <<"x", "a", "b", "c", "y", "z", "w">>}

NoTable == [configured |-> FALSE, rows |-> <<>>]

TablePool == {NoTable,
              [configured |-> TRUE, rows |-> <<>>],
              [configured |-> TRUE, rows |-> << <<>> >>],
              [configured |-> TRUE,
               rows |-> << <<"xiao", "ming", "tong", "xue">> >>],
              [configured |-> TRUE,
               rows |-> << <<" ", "zhang", "san">>, <<>> >>],
              [configured |-> TRUE, rows |-> << <<"li">>, <<"ming">> >>]}

VerifyInit ==
    /\ cur \in EntryPool
    /\ today \in Days
    /\ standard_abstract \in AbstractPool
    /\ member_table \in TablePool
    /\ records = <<>>
    /\ pending_review = <<>>
    /\ pc = "for"
    /\ text_lines = <<>>
    /\ i = 0
    /\ entries = <<>>
    /\ uploaded_files = <<>>
    /\ shown = {}
    /\ last = "none"
    /\ ocr = <<>>

\* the body of `for nickname, punch_time, sentence in entries`, lines 211-247
VerifyEntry ==
    /\ pc = "for"
    /\ Len(records) < MaxStored
    /\ LET st == store([records |-> records, pending_review |-> pending_review],
                       record(cur, today, standard_abstract,
                              fetch_member_nicknames(member_table)))
       IN  /\ records' = st.records
           /\ pending_review' = st.pending_review
    /\ UNCHANGED <<text_lines, i, entries, pc, cur, today, standard_abstract,
                   member_table, uploaded_files, shown, last, ocr>>

VerifyNext == VerifyEntry

VerifySpec == VerifyInit /\ [][VerifyNext]_vars

-----------------------------------------------------------------------------
(* The Streamlit session.  Every user interaction with a widget runs the    *)
(* whole script from its first line, with st.session_state kept and the     *)
(* st.file_uploader still returning the files it holds; a button returns    *)
(* True only in the run its click started; st.experimental_rerun() stops    *)
(* the run and starts another.  A step is one interaction handled to the    *)
(* end, reruns included.                                                     *)

\* the images a user may upload, by the lines the recognizer reads in them
FileLines(f) ==
    IF f = "A"
    THEN << <<"ni", "cheng", "fcolon", "xiao", "ming">>,
            <<"da", "ka", "shi", "jian", "fcolon",
              "2", "0", "2", "6", "/", "1", "1", "/", "1", "2">>,
            ExcerptLabelShort \o <<"fcolon", "a", "b", "c">>,
            <<"ni", "cheng", ":", "zhang", "san">>,
            <<"da", "ka", "shi", "jian", ":",
              "2", "0", "2", "6", "/", "3", "/", "5">>,
            <<"a", "b">> >>
    ELSE << <<"h", "i">>,
            <<"ni", "cheng", "fcolon", "li">>,
            <<"da", "ka", "shi", "jian", "fcolon",
              "2", "0", "2", "6", "/", "1", "1", "/", "1", "2">>,
            <<"a", "b", "c", "d">> >>

FilePool == {"A", "B"}

\* the recognizer answers with lines, answers with an error, or the call fails
OcrOutcomes == {"ok", "error", "raise"}

SessionDays == {<<2026, 11, 12>>, <<2026, 11, 13>>}
SessionAbstracts == {<<>>, <<"a", "b", "c", "d">>}
SessionTable == [configured |-> TRUE,
                 rows |-> << <<"xiao", "ming", "tong", "xue">> >>]

\* baidu_ocr(image_bytes) when the HTTP calls return: the words of the answer,
\* or [] for an answer without "words_result"
baidu_ocr(f, outcome) == IF outcome = "ok" THEN FileLines(f) ELSE <<>>

\* `for nickname, punch_time, sentence in entries`, lines 211-247
RECURSIVE verify_all(_, _, _, _, _)
verify_all(st, es, day, abstract, members) ==
    IF es = <<>> THEN st
    ELSE verify_all(store(st, record(Head(es), day, abstract, members)),
                    Tail(es), day, abstract, members)

\* `for uploaded_file in uploaded_files` from file k on, lines 191-251.  An
\* exception of baidu_ocr (requests.post or resp.json() raising) is caught
\* nowhere and ends the script run.  seen: the recognizer's answer per file,
\* "skipped" for a file the loop never came to.
\* lines 198-247 for one image: nothing without lines or without entries
process(st, lines, es, day, abstract, members) ==
    IF lines = <<>> \/ es = <<>> THEN st
    ELSE verify_all(st, es, day, abstract, members)

RECURSIVE upload_loop(_, _, _, _, _, _, _, _)
upload_loop(st, files, o, k, seen, day, abstract, members) ==
    IF k > Len(files) THEN [st |-> st, seen |-> seen, raised |-> FALSE]
    ELSE IF o[k] = "raise"
    THEN [st |-> st,
          seen |-> seen \o <<"raise">>
                   \o [n \in 1..(Len(files) - k) |-> "skipped"],
          raised |-> TRUE]
    ELSE upload_loop(process(st, baidu_ocr(files[k], o[k]),
                             parse_checkin(baidu_ocr(files[k], o[k])),
                             day, abstract, members),
                     files, o, k + 1, Append(seen, o[k]),
                     day, abstract, members)

\* `if uploaded_files:`, lines 181-251
upload_block(st, files, o, day, abstract, table) ==
    IF files # <<>>
    THEN upload_loop(st, files, o, 1, <<>>, day, abstract,
                     fetch_member_nicknames(table))
    ELSE [st |-> st, seen |-> <<>>, raised |-> FALSE]

Range(q) == {q[n] : n \in 1..Len(q)}

\* lines 265-267: every dict of pending_review gets "通过" = True, then the
\* list is cleared
force_approve(st) ==
    [records |-> [n \in 1..Len(st.records) |->
                    IF n \in Range(st.pending_review)
                    THEN [st.records[n] EXCEPT !.tongguo = TRUE]
                    ELSE st.records[n]],
     pending_review |-> <<>>]

\* lines 317-318
clear_all(st) == [records |-> <<>>, pending_review |-> <<>>]

\* the script after the upload block u, lines 253-328, `click` pressed
after_upload(u, click) ==
    IF u.raised
    THEN [st |-> u.st, seen |-> u.seen, shown |-> {}, rerun |-> FALSE,
          did |-> "error"]
    ELSE IF u.st.pending_review # <<>> /\ click = "force"
    THEN [st |-> force_approve(u.st), seen |-> u.seen, shown |-> {},
          rerun |-> TRUE, did |-> "force"]
    ELSE IF click = "clear"
    THEN [st |-> clear_all(u.st), seen |-> u.seen, shown |-> {},
          rerun |-> TRUE, did |-> "clear"]
    ELSE [st |-> u.st, seen |-> u.seen,
          shown |-> (IF u.st.pending_review # <<>> THEN {"force"} ELSE {})
                    \cup {"clear"}
                    \cup (IF u.st.records # <<>> THEN {"download"} ELSE {}),
          rerun |-> FALSE, did |-> click]

\* one run of the script, lines 165-328, started with `click` pressed
script_run(st, files, o, day, abstract, table, click) ==
    after_upload(upload_block(st, files, o, day, abstract, table), click)

Outcomes(files) == [1..Len(files) -> OcrOutcomes]

\* the session after a script run r
Becomes(r, files) ==
    /\ Len(r.st.records) <= MaxRecords
    /\ records' = r.st.records
    /\ pending_review' = r.st.pending_review
    /\ shown' = r.shown
    /\ last' = r.did
    /\ ocr' = r.seen
    /\ uploaded_files' = files

\* after the first run r1: the run that follows st.experimental_rerun()
Rerun(r1, files) ==
    IF r1.rerun
    THEN \E o2 \in Outcomes(files) :
            Becomes([script_run(r1.st, files, o2, today, standard_abstract,
                                member_table, "rerun")
                     EXCEPT !.did = r1.did], files)
    ELSE Becomes(r1, files)

\* an interaction handled to the end: the run it starts and, after
\* st.experimental_rerun(), the run that follows
Session(files, click) ==
    \E o1 \in Outcomes(files) :
        Rerun(script_run([records |-> records,
                          pending_review |-> pending_review],
                         files, o1, today, standard_abstract, member_table,
                         click), files)

SessionIdle ==
    /\ text_lines = <<>>
    /\ i = 0
    /\ entries = <<>>
    /\ pc = "script"
    /\ cur = <<>>

Init ==
    /\ SessionIdle
    /\ today \in SessionDays
    /\ standard_abstract \in SessionAbstracts
    /\ member_table = SessionTable
    /\ records = <<>>
    /\ pending_review = <<>>
    /\ uploaded_files = <<>>
    /\ shown = {"clear"}
    /\ last = "none"
    /\ ocr = <<>>

\* the user adds a batch of images to the uploader
AddFiles ==
    /\ \E batch \in UNION {[1..n -> FilePool] : n \in 1..MaxFiles} :
          /\ Len(uploaded_files) + Len(batch) <= MaxFiles
          /\ Session(uploaded_files \o batch, "upload")
    /\ UNCHANGED <<text_lines, i, entries, pc, cur, today, standard_abstract,
                   member_table>>

\* the user removes the images from the uploader
RemoveFiles ==
    /\ uploaded_files # <<>>
    /\ Session(<<>>, "remove")
    /\ UNCHANGED <<text_lines, i, entries, pc, cur, today, standard_abstract,
                   member_table>>

\* the force-approve button, line 263, rendered by the last run, is clicked
ClickForce ==
    /\ "force" \in shown
    /\ Session(uploaded_files, "force")
    /\ UNCHANGED <<text_lines, i, entries, pc, cur, today, standard_abstract,
                   member_table>>

\* the clear-all button, line 316, is clicked
ClickClear ==
    /\ "clear" \in shown
    /\ Session(uploaded_files, "clear")
    /\ UNCHANGED <<text_lines, i, entries, pc, cur, today, standard_abstract,
                   member_table>>

\* the CSV download button, line 326, is clicked: the page is run again
ClickDownload ==
    /\ "download" \in shown
    /\ Session(uploaded_files, "download")
    /\ UNCHANGED <<text_lines, i, entries, pc, cur, today, standard_abstract,
                   member_table>>

\* the world outside: midnight passes
Midnight ==
    /\ today = <<2026, 11, 12>>
    /\ today' = <<2026, 11, 13>>
    /\ UNCHANGED <<text_lines, i, entries, pc, cur, standard_abstract,
                   member_table, records, pending_review, uploaded_files,
                   shown, last, ocr>>

Next ==
    \/ AddFiles
    \/ RemoveFiles
    \/ ClickForce
    \/ ClickClear
    \/ ClickDownload
    \/ Midnight

Spec == Init /\ [][Next]_vars

-----------------------------------------------------------------------------
(* Properties of the parser *)

IsNickLine(l) == nick_match(strip(l)).matched
IsTimeLine(l) == time_match(strip(l)).matched
NickOf(l) == strip(nick_match(strip(l)).group1)
TimeOf(l) == time_match(strip(l)).group1
ExcerptOf(l) == strip(sub_prefix(strip(l)))

\* lines k+1, k+2, k+3 (cursor k) are a nickname line, a timestamp line and
\* any third line
TripletAt(lines, k) ==
    /\ k + 2 < Len(lines)
    /\ IsNickLine(lines[k + 1])
    /\ IsTimeLine(lines[k + 2])

TripleOf(lines, k) ==
    <<NickOf(lines[k + 1]), TimeOf(lines[k + 2]), ExcerptOf(lines[k + 3])>>

\* the cursor positions at which the forward scan of the claim emits
RECURSIVE ScanStarts(_, _)
ScanStarts(lines, k) ==
    IF k >= Len(lines) THEN <<>>
    ELSE IF TripletAt(lines, k) THEN <<k>> \o ScanStarts(lines, k + 3)
    ELSE ScanStarts(lines, k + 1)

\* the cursor positions the forward scan of the claim visits
RECURSIVE ScanCursors(_, _)
ScanCursors(lines, k) ==
    IF k >= Len(lines) THEN {k}
    ELSE {k} \cup ScanCursors(lines, IF TripletAt(lines, k) THEN k + 3 ELSE k + 1)

C3_Inv ==
    LET starts == ScanStarts(text_lines, 0)
        done == {n \in 1..Len(starts) : starts[n] < i}
    IN  /\ i \in ScanCursors(text_lines, 0)
        /\ i <= Len(text_lines)
        /\ Len(entries) = Cardinality(done)
        /\ \A n \in done : entries[n] = TripleOf(text_lines, starts[n])
        /\ \A n \in 1..(Len(starts) - 1) : starts[n] + 3 <= starts[n + 1]
        /\ pc = "return" => i = Len(text_lines)

C3_Step ==
    IF TripletAt(text_lines, i)
    THEN /\ i' = i + 3
         /\ entries' = Append(entries, TripleOf(text_lines, i))
    ELSE /\ i' = i + 1
         /\ entries' = entries

WellFormedAt(lines, k) ==
    /\ TripletAt(lines, k)
    /\ ~IsNickLine(lines[k + 3])
    /\ ~IsTimeLine(lines[k + 3])

RECURSIVE WellFormedTriples(_, _)
WellFormedTriples(lines, k) ==
    IF k >= Len(lines) THEN <<>>
    ELSE IF WellFormedAt(lines, k)
         THEN <<TripleOf(lines, k)>> \o WellFormedTriples(lines, k + 3)
         ELSE WellFormedTriples(lines, k + 1)

\* line q+1 is a nickname or timestamp line outside every well-formed triplet:
\* a line of a partial triplet
PartialAt(lines, q) ==
    /\ IsNickLine(lines[q + 1]) \/ IsTimeLine(lines[q + 1])
    /\ \A k \in 0..(Len(lines) - 1) :
          WellFormedAt(lines, k) => q \notin k..(k + 2)

MalformedThenWellFormed(lines) ==
    \E q \in 0..(Len(lines) - 1), k \in 0..(Len(lines) - 1) :
        q < k /\ PartialAt(lines, q) /\ WellFormedAt(lines, k)

\* C4: when a partial triplet is followed later by a well-formed triplet, the
\* parser returns the entries of the well-formed triplets and nothing else.
C4_RecoversAfterMalformed ==
    pc = "return" /\ MalformedThenWellFormed(text_lines)
        => entries = WellFormedTriples(text_lines, 0)

-----------------------------------------------------------------------------
(* Properties of the verification of one entry *)

\* a day formatted as YYYY/M/D, month and day not padded
Unpadded(n) == IF n < 10 THEN <<Digit(n)>> ELSE <<Digit(n \div 10), Digit(n % 10)>>
FormatNoPad(d) ==
    <<Digit(d[1] \div 1000), Digit((d[1] \div 100) % 10),
      Digit((d[1] \div 10) % 10), Digit(d[1] % 10), "/">>
    \o Unpadded(d[2]) \o <<"/">> \o Unpadded(d[3])

\* C1: dateValid is true exactly when the punch timestamp equals today's date
\* formatted as YYYY/M/D without zero-padding.
C1_DateValidIffUnpaddedToday ==
    \A n \in 1..Len(records) :
        records[n].riqiyouxiao = (records[n].dakariqi = FormatNoPad(today))

\* C2: a non-empty excerpt found verbatim inside a longer, non-empty reference
\* abstract reaches the threshold, and passes when date and nickname are valid.
C2_VerbatimExcerptPasses ==
    \A n \in 1..Len(records) :
        /\ standard_abstract # <<>>
        /\ records[n].zhailujuzi # <<>>
        /\ Len(standard_abstract) > Len(records[n].zhailujuzi)
        /\ contains(standard_abstract, records[n].zhailujuzi)
        => /\ records[n].xiangsidudabiao
           /\ records[n].riqiyouxiao /\ records[n].nichengyouxiao
                => records[n].tongguo

\* C5: verifying one entry appends exactly one record, of that entry, whose
\* passed field is the conjunction of its three checks, and appends a
\* reference to that record to the pending list exactly when it did not pass.
C5_Step ==
    LET r == records'[Len(records')]
    IN  /\ Len(records') = Len(records) + 1
        /\ SubSeq(records', 1, Len(records)) = records
        /\ <<r.nicheng, r.dakariqi, r.zhailujuzi>> = cur
        /\ r.tongguo = (r.riqiyouxiao /\ r.xiangsidudabiao /\ r.nichengyouxiao)
        /\ r.tongguo => pending_review' = pending_review
        /\ ~r.tongguo => pending_review' = Append(pending_review, Len(records'))

C5_OneRecordPerEntry == [][C5_Step]_vars

C5_Witness ==
    /\ Len(records) = 2
    /\ records[2].riqiyouxiao /\ records[2].xiangsidudabiao
    /\ ~records[2].nichengyouxiao
    /\ pending_review = <<1, 2>>

\* x is a substring of y
Substring(x, y) ==
    \E u \in 0..Len(y), v \in 0..Len(y) :
        u + Len(x) + v = Len(y) /\ \A k \in 1..Len(x) : y[u + k] = x[k]

\* C6: nicknameValid is true when the roster is empty or absent, and
\* otherwise exactly when some roster entry contains the nickname or is
\* contained in it.
C6_NicknameValid ==
    LET roster == fetch_member_nicknames(member_table)
    IN  \A n \in 1..Len(records) :
          /\ ~member_table.configured => records[n].nichengyouxiao
          /\ roster = <<>> => records[n].nichengyouxiao
          /\ roster # <<>> =>
                records[n].nichengyouxiao =
                  (\E k \in 1..Len(roster) :
                      \/ Substring(records[n].nicheng, roster[k])
                      \/ Substring(roster[k], records[n].nicheng))

C6_Witness ==
    /\ Len(records) >= 1
    /\ records[1].nicheng = <<"xiao", "ming">>
    /\ fetch_member_nicknames(member_table) = << <<"li">>, <<"ming">> >>
    /\ records[1].nichengyouxiao


-----------------------------------------------------------------------------
(* Properties of the session *)

Ents(recs) == [n \in 1..Len(recs) |->
                 <<recs[n].nicheng, recs[n].dakariqi, recs[n].zhailujuzi>>]

\* the entries parsed from files k..Len(files), those the recognizer answered
RECURSIVE ParsedFrom(_, _, _)
ParsedFrom(files, answers, k) ==
    IF k > Len(files) THEN <<>>
    ELSE (IF answers[k] = "ok" THEN parse_checkin(FileLines(files[k])) ELSE <<>>)
         \o ParsedFrom(files, answers, k + 1)

\* a step that handles a click on the force-approve button
ForceStep == last' = "force" /\ today' = today

\* C7: force-approve-all sets passed on every pending record, empties the
\* pending list, and leaves every other field, every other record and the
\* length of the record store as they were.
C7_ForceApproveFrame ==
    [][ForceStep =>
         /\ pending_review' = <<>>
         /\ Len(records') = Len(records)
         /\ \A n \in 1..Len(records) :
               records'[n] = IF n \in Range(pending_review)
                             THEN [records[n] EXCEPT !.tongguo = TRUE]
                             ELSE records[n]]_vars

\* C8: in a batch uploaded to an empty uploader, every image is recognized
\* whatever the recognizer answered for the images before it; a failed image
\* adds no record, every other image adds its entries, and the records
\* already stored stay.
C8_FailureIsolated ==
    [][uploaded_files = <<>> /\ uploaded_files' # <<>> =>
         /\ Len(ocr') = Len(uploaded_files')
         /\ "skipped" \notin Range(ocr')
         /\ Len(records') >= Len(records)
         /\ SubSeq(records', 1, Len(records)) = records
         /\ Ents(SubSeq(records', Len(records) + 1, Len(records')))
              = ParsedFrom(uploaded_files',
                           [k \in 1..Len(uploaded_files') |->
                              IF ocr'[k] = "ok" THEN "ok" ELSE "failed"], 1)]_vars

\* every image in the uploader was recognized by the last run, so that every
\* entry parsed from it is in the store already
AllRecognized ==
    /\ Len(ocr) = Len(uploaded_files)
    /\ \A k \in 1..Len(ocr) : ocr[k] = "ok"

\* C9: a batch uploaded to an empty uploader appends one record per entry
\* parsed from its images, in image order and parser order; once every
\* uploaded image has been recognized, an interaction that uploads nothing
\* new does not grow the store and, unless it is clear-all, leaves its
\* entries as they are.
C9_OneRecordPerParsedEntry ==
    [][/\ uploaded_files = <<>> /\ uploaded_files' # <<>> /\ last' = "upload"
            => Ents(records')
                 = Ents(records) \o ParsedFrom(uploaded_files', ocr', 1)
       /\ uploaded_files' = uploaded_files /\ AllRecognized
            => /\ Len(records') <= Len(records)
               /\ last' # "clear" => Ents(records') = Ents(records)]_vars

\* C10: every member of the pending list is a record of the store that has
\* not passed, and clear-all leaves the store and the pending list empty.
C10_PendingSubsetAndClear ==
    /\ \A k \in 1..Len(pending_review) :
          /\ pending_review[k] \in 1..Len(records)
          /\ ~records[pending_review[k]].tongguo
    /\ last = "clear" => records = <<>> /\ pending_review = <<>>

=============================================================================
